---- MODULE Spec2Model ----
(***************************************************************************)
(* A model of src/main.py: the Flask handlers get_items (POST              *)
(* /api/salservice) and health_check (GET /health), the helpers            *)
(* get_db_connection and query_to_dict_list, and the connections they open.*)
(*                                                                         *)
(* Text (SQL statements, messages, string values) is a sequence of tokens, *)
(* so that formatting a value into a text is concatenation and the text    *)
(* can be searched.  A JSON value is a record [kind, text, members].       *)
(* A Python dict is a sequence of [key, value] entries in insertion order. *)
(* The handlers share no mutable state (main.py has no module-level        *)
(* mutable data), so the server is modelled one request at a time.         *)
(***************************************************************************)
EXTENDS Integers, Sequences, FiniteSets, TLC

VARIABLES
    env,        \* os.environ: the five settings get_db_connection reads
    pc,         \* position of the request being handled
    req,        \* the request: handler, is_json, body
    data,       \* get_items: data = request.get_json()
    table_name, \* get_items: table_name = data.get('TABLE')
    query,      \* get_items: the statement text
    params,     \* get_items: the parameter list
    conn,       \* the handler's local conn: an index into conns, 0 for none
    result,     \* get_items: what conn.run returned
    items,      \* get_items: what query_to_dict_list returned
    resp,       \* the response returned by the handler
    obs,        \* what the handler did so far: calls made, exception raised
    conns,      \* every driver connection opened by the process
    served      \* number of requests completed

vars == <<env, pc, req, data, table_name, query, params, conn, result, items,
          resp, obs, conns, served>>

----------------------------------------------------------------------------
(* Bounds of the model *)

MaxBodyKeys == 3   \* keys in a JSON object body
MaxRequests == 2   \* requests served by one process
MaxRows == 2       \* rows of a result set
MaxCols == 2       \* columns of a result set

----------------------------------------------------------------------------
(* JSON values and the Python operations the handlers apply to them *)

JNull == [kind |-> "null", text |-> <<>>, members |-> <<>>]
JStr(t) == [kind |-> "string", text |-> t, members |-> <<>>]
JNum(n) == [kind |-> "number", text |-> <<n>>, members |-> <<>>]
JArr(elems) == [kind |-> "array", text |-> <<>>, members |-> elems]
JObj(entries) == [kind |-> "object", text |-> <<>>, members |-> entries]

Indices(s) == 1..Len(s)

\* the outcome of evaluating an expression: a value, or an exception raised
Ok(v) == [raised |-> FALSE, msg |-> <<>>, val |-> v]
Raise(m) == [raised |-> TRUE, msg |-> m, val |-> JNull]

\* type(v).__name__
TypeName(v) ==
    CASE v.kind = "null" -> "NoneType"
      [] v.kind = "string" -> "str"
      [] v.kind = "number" -> "int"
      [] v.kind = "array" -> "list"
      [] OTHER -> "dict"

\* bool(v)
Truthy(v) ==
    CASE v.kind = "null" -> FALSE
      [] v.kind = "string" -> v.text # <<>>
      [] v.kind = "number" -> v.text # <<"0">>
      [] OTHER -> v.members # <<>>

\* str(v) as it is formatted into an f-string
Format(v) ==
    CASE v.kind = "null" -> <<"None">>
      [] v.kind \in {"string", "number"} -> v.text
      [] v.kind = "array" -> <<"[...]">>
      [] OTHER -> <<"{...}">>

\* key in v
Contains(v, key) ==
    CASE v.kind = "object" -> Ok(\E i \in Indices(v.members) : v.members[i].key = key)
      [] v.kind = "array" -> Ok(\E i \in Indices(v.members) : v.members[i] = JStr(<<key>>))
      [] v.kind = "string" -> Ok(\E i \in Indices(v.text) : v.text[i] = key)
      [] OTHER -> Raise(<<"argument of type '", TypeName(v), "' is not iterable">>)

\* v[key] of a dict that holds key
Lookup(v, key) ==
    LET i == CHOOSE j \in Indices(v.members) : v.members[j].key = key
    IN  v.members[i].value

\* v.get(key)
DictGet(v, key) ==
    IF v.kind = "object"
    THEN IF Contains(v, key).val THEN Ok(Lookup(v, key)) ELSE Ok(JNull)
    ELSE Raise(<<"'", TypeName(v), "' object has no attribute 'get'">>)

\* request.get_json() once request.is_json holds: the body parsed, or
\* werkzeug's BadRequest when the body does not parse
get_json(body) ==
    IF body.wellformed THEN Ok(body.value)
    ELSE Raise(<<"400 Bad Request: ", "Failed to decode JSON object">>)

----------------------------------------------------------------------------
(* get_items: the statement builder *)

param_mapping ==
    << [param |-> "USERNAME", column |-> "USERNAME"],
       [param |-> "PASSWORD", column |-> "PASSWORD"],
       [param |-> "DOCTYPE",  column |-> "DOCTYPE"],
       [param |-> "DOCNUM",   column |-> "DOCNUM"],
       [param |-> "DOCITEM",  column |-> "DOCITEM"],
       [param |-> "CUSTOMER", column |-> "CUSTOMER"],
       [param |-> "CUSTNAME", column |-> "CUSTNAME"],
       [param |-> "MATERIAL", column |-> "MATERIAL"],
       [param |-> "QUANTITY", column |-> "QUANTITY"] >>

\* query = f"SELECT * FROM {table_name} WHERE 1=1"
BaseQuery(table) == <<"SELECT", "*", "FROM">> \o Format(table) \o <<"WHERE", "1=1">>

\* if param_name in data and data[param_name] is not None
HasFilter(d, param_name) ==
    /\ Contains(d, param_name).val
    /\ Lookup(d, param_name) # JNull

\* a builder that writes the value into the statement text
ConditionInterpolated(column_name, value) == <<"AND", column_name, "=">> \o Format(value)

\* query += f" AND {column_name} = ?"
Condition(column_name, value) == <<"AND", column_name, "=", "?">>

\* a builder that visits the recognized keys in the order of the body
FilterOrderOfBody(d) ==
    LET known == SelectSeq(d.members,
                           LAMBDA m : \E i \in Indices(param_mapping) :
                                        param_mapping[i].param = m.key)
    IN  [i \in Indices(known) |-> [param |-> known[i].key, column |-> known[i].key]]

\* the keys the filter loop visits, in order
FilterOrder(d) == param_mapping

\* the filter loop from entry i of order on: [query, params]
RECURSIVE AddFilters(_, _, _, _, _)
AddFilters(order, i, d, q, p) ==
    IF i > Len(order) THEN [query |-> q, params |-> p]
    ELSE IF HasFilter(d, order[i].param)
         THEN AddFilters(order, i + 1, d,
                         q \o Condition(order[i].column, Lookup(d, order[i].param)),
                         Append(p, Lookup(d, order[i].param)))
         ELSE AddFilters(order, i + 1, d, q, p)

BuildQuery(d, table) == AddFilters(FilterOrder(d), 1, d, BaseQuery(table), <<>>)

----------------------------------------------------------------------------
(* get_db_connection *)

Unset == [set |-> FALSE, value |-> ""]
Setting(v) == [set |-> TRUE, value |-> v]

\* os.environ.get(name) is None or a string; `not x` holds of None and of ''
Missing(x) == ~x.set \/ x.value = ""

\* str(bool(x))
BoolText(x) == IF Missing(x) THEN "False" ELSE "True"

\* the ValueError of lines 39-43
MissingParametersMessage(e) ==
    << "Missing required database parameters: ",
       "user=", BoolText(e.PGUSER), ", password=", BoolText(e.PGPASSWORD),
       ", host=", BoolText(e.POSTGRES_HOST), ", database=", BoolText(e.PGDATABASE) >>

DefaultPort == "5432"

\* int(s)
ParseInt(s) ==
    CASE s = "5432" -> Ok(5432)
      [] s = "5433" -> Ok(5433)
      [] OTHER -> Raise(<<"invalid literal for int() with base 10: ", s>>)

ConnectTimeout == 5

\* a check that tells unset settings only, not empty ones
RequiredPresentNotNone(e) ==
    e.PGUSER.set /\ e.PGPASSWORD.set /\ e.POSTGRES_HOST.set /\ e.PGDATABASE.set

\* the check of line 38
RequiredPresent(e) ==
    ~(Missing(e.PGUSER) \/ Missing(e.PGPASSWORD) \/ Missing(e.POSTGRES_HOST)
        \/ Missing(e.PGDATABASE))

\* get_db_connection() under environment e, when the driver answers the
\* connection attempt (if one is made) with `driver`: the exception raised or
\* none, whether pg8000.native.Connection was called, and with what.  The
\* except clause prints the exception and raises it again.
get_db_connection(e, driver) ==
    IF ~RequiredPresent(e)
    THEN [raised |-> TRUE, msg |-> MissingParametersMessage(e), attempted |-> FALSE,
          args |-> <<>>]
    ELSE LET port == ParseInt(IF e.NEON_PORT.set THEN e.NEON_PORT.value ELSE DefaultPort)
         IN  IF port.raised
             THEN [raised |-> TRUE, msg |-> port.msg, attempted |-> FALSE, args |-> <<>>]
             ELSE [raised |-> driver.raised, msg |-> driver.msg, attempted |-> TRUE,
                   args |-> << [user |-> e.PGUSER.value, password |-> e.PGPASSWORD.value,
                                host |-> e.POSTGRES_HOST.value, port |-> port.val,
                                database |-> e.PGDATABASE.value, ssl_context |-> TRUE,
                                timeout |-> ConnectTimeout] >>]

\* what pg8000.native.Connection(...) can answer: a connection, or an exception
DriverConnectOutcomes ==
    { Ok(JNull), Raise(<<"connection refused">>), Raise(<<"timed out">>) }

----------------------------------------------------------------------------
(* query_to_dict_list *)

\* row_dict[column] = value: a key already held keeps its place
DictSet(d, k, v) ==
    IF \E i \in Indices(d) : d[i].key = k
    THEN [i \in Indices(d) |-> IF d[i].key = k THEN [key |-> k, value |-> v] ELSE d[i]]
    ELSE Append(d, [key |-> k, value |-> v])

\* the inner loop over enumerate(columns), from column i on
RECURSIVE RowDict(_, _, _, _)
RowDict(row, columns, i, d) ==
    IF i > Len(columns) THEN d
    ELSE RowDict(row, columns, i + 1, DictSet(d, columns[i], row[i]))

\* a loop that puts each record in front
AppendRecordFront(res, row_dict) == <<row_dict>> \o res

\* result.append(row_dict)
AppendRecord(res, row_dict) == Append(res, row_dict)

\* the outer loop over rows, from row k on
RECURSIVE RowsLoop(_, _, _, _)
RowsLoop(rows, columns, k, res) ==
    IF k > Len(rows) THEN res
    ELSE RowsLoop(rows, columns, k + 1,
                  AppendRecord(res, RowDict(rows[k], columns, 1, <<>>)))

query_to_dict_list(rows, columns) == RowsLoop(rows, columns, 1, <<>>)

\* columns = [column[0] for column in result.description]
ColumnNames(description) == [i \in Indices(description) |-> description[i][1]]

----------------------------------------------------------------------------
(* Responses *)

NoResp == [status |-> 0, body |-> <<>>]

\* jsonify({'error': text}), status
ErrorResponse(status, text) == [status |-> status, body |-> [error |-> text]]

\* an error response that drops the exception's message
DatabaseErrorNoMessage(msg) == ErrorResponse(500, <<"Database error: ">>)

\* line 183: jsonify({'error': f'Database error: {str(e)}'}), 500
DatabaseError(msg) == ErrorResponse(500, <<"Database error: ">> \o msg)

\* line 180: jsonify(items); serialisation is the framework's
ItemsResponse(recs) == [status |-> 200, body |-> [json |-> recs]]

\* lines 124-128
HealthyResponse ==
    [status |-> 200,
     body |-> [status |-> "healthy", database |-> "connected", timestamp |-> "now"]]

\* lines 130-135
UnhealthyResponse(msg) ==
    [status |-> 500,
     body |-> [status |-> "unhealthy", database |-> "disconnected", error |-> msg,
               timestamp |-> "now"]]

----------------------------------------------------------------------------
(* The state of a handler invocation *)

NoResult == [has_description |-> FALSE, description |-> <<>>, rows |-> <<>>]

NoObs ==
    [validated |-> FALSE,  \* get_items passed the checks of lines 142-148
     nStmt |-> 0,          \* statements built
     nGetConn |-> 0,       \* calls of get_db_connection
     nDriver |-> 0,        \* calls of pg8000.native.Connection
     nExec |-> 0,          \* calls of conn.run
     nResp |-> 0,          \* responses returned
     raisedAt |-> "none",  \* where an exception was raised, if any
     exc |-> <<>>]         \* str(e) of that exception

NoRequest == [handler |-> "none", is_json |-> FALSE,
              body |-> [wellformed |-> FALSE, value |-> JNull]]

\* return response: the invocation ends
Return(r, o) ==
    /\ resp' = r
    /\ obs' = [o EXCEPT !.nResp = @ + 1]
    /\ pc' = "done"

\* an exception e raised at `where` reaches the handler's except clause
Caught(where, msg) == [obs EXCEPT !.raisedAt = where, !.exc = msg]

----------------------------------------------------------------------------
(* get_items, lines 138-183 *)

\* lines 140-150: the checks on the request
GetItemsValidate ==
    /\ pc = "validate"
    /\ UNCHANGED <<env, req, query, params, conn, result, items, conns, served>>
    /\ IF ~req.is_json
       THEN /\ Return(ErrorResponse(400, <<"Request must be JSON">>), obs)
            /\ UNCHANGED <<data, table_name>>
       ELSE LET j == get_json(req.body)
                c == Contains(j.val, "TABLE")
                g == DictGet(j.val, "TABLE")
            IN  IF j.raised
                THEN /\ Return(DatabaseError(j.msg), Caught("parse", j.msg))
                     /\ UNCHANGED <<data, table_name>>
                ELSE IF c.raised
                THEN /\ Return(DatabaseError(c.msg), Caught("parse", c.msg))
                     /\ data' = j.val
                     /\ UNCHANGED table_name
                ELSE IF ~c.val
                THEN /\ Return(ErrorResponse(400, <<"Missing required parameter: TABLE">>), obs)
                     /\ data' = j.val
                     /\ UNCHANGED table_name
                ELSE IF g.raised
                THEN /\ Return(DatabaseError(g.msg), Caught("parse", g.msg))
                     /\ data' = j.val
                     /\ UNCHANGED table_name
                ELSE IF ~Truthy(g.val)
                THEN /\ Return(ErrorResponse(400, <<"Missing required parameter: TABLE">>), obs)
                     /\ data' = j.val
                     /\ UNCHANGED table_name
                ELSE /\ data' = j.val
                     /\ table_name' = g.val
                     /\ obs' = [obs EXCEPT !.validated = TRUE]
                     /\ pc' = "build"
                     /\ UNCHANGED resp

\* lines 152-172: the statement and its parameter list
GetItemsBuild ==
    /\ pc = "build"
    /\ LET b == BuildQuery(data, table_name)
       IN  /\ query' = b.query
           /\ params' = b.params
    /\ obs' = [obs EXCEPT !.nStmt = @ + 1]
    /\ pc' = "connect"
    /\ UNCHANGED <<env, req, data, table_name, conn, result, items, resp, conns, served>>

\* the connection get_db_connection returned joins the open connections
Opened(c) == Append(conns, [args |-> c.args[1], open |-> TRUE])

\* a handler that tries the connection a second time after a failure
GetItemsConnectRetry ==
    /\ pc = "connect"
    /\ \E driver \in DriverConnectOutcomes :
         LET c == get_db_connection(env, driver)
             o == [obs EXCEPT !.nGetConn = @ + 1,
                              !.nDriver = IF c.attempted THEN @ + 1 ELSE @]
         IN  IF c.raised /\ obs.nGetConn = 0
             THEN /\ obs' = o
                  /\ UNCHANGED <<pc, resp, conn, conns>>
             ELSE IF c.raised
             THEN /\ Return(DatabaseError(c.msg),
                            [o EXCEPT !.raisedAt = "connect", !.exc = c.msg])
                  /\ UNCHANGED <<conn, conns>>
             ELSE /\ conns' = Opened(c)
                  /\ conn' = Len(conns) + 1
                  /\ obs' = o
                  /\ pc' = "run"
                  /\ UNCHANGED resp
    /\ UNCHANGED <<env, req, data, table_name, query, params, result, items, served>>

\* line 174: conn = get_db_connection()
GetItemsConnect ==
    /\ pc = "connect"
    /\ \E driver \in DriverConnectOutcomes :
         LET c == get_db_connection(env, driver)
             o == [obs EXCEPT !.nGetConn = @ + 1,
                              !.nDriver = IF c.attempted THEN @ + 1 ELSE @]
         IN  IF c.raised
             THEN /\ Return(DatabaseError(c.msg),
                            [o EXCEPT !.raisedAt = "connect", !.exc = c.msg])
                  /\ UNCHANGED <<conn, conns>>
             ELSE /\ conns' = Opened(c)
                  /\ conn' = Len(conns) + 1
                  /\ obs' = o
                  /\ pc' = "run"
                  /\ UNCHANGED resp
    /\ UNCHANGED <<env, req, data, table_name, query, params, result, items, served>>

\* what conn.run can answer: a result set, or an exception
RunOutcomes(results) ==
    { Raise(<<"relation does not exist">>) }
        \cup { [raised |-> FALSE, msg |-> <<>>, val |-> r] : r \in results }

\* line 175: result = conn.run(query, params)
GetItemsRun(results) ==
    /\ pc = "run"
    /\ \E r \in RunOutcomes(results) :
         LET o == [obs EXCEPT !.nExec = @ + 1]
         IN  IF r.raised
             THEN /\ Return(DatabaseError(r.msg),
                            [o EXCEPT !.raisedAt = "run", !.exc = r.msg])
                  /\ UNCHANGED result
             ELSE /\ result' = r.val
                  /\ obs' = o
                  /\ pc' = "respond"
                  /\ UNCHANGED resp
    /\ UNCHANGED <<env, req, data, table_name, query, params, conn, items, conns, served>>

\* lines 177-180: the rows as records, and the response
GetItemsRespond ==
    /\ pc = "respond"
    /\ IF ~result.has_description
       THEN LET msg == <<"'list' object has no attribute 'description'">>
            IN  /\ Return(DatabaseError(msg), Caught("convert", msg))
                /\ UNCHANGED items
       ELSE LET recs == query_to_dict_list(result.rows, ColumnNames(result.description))
            IN  /\ items' = recs
                /\ Return(ItemsResponse(recs), obs)
    /\ UNCHANGED <<env, req, data, table_name, query, params, conn, result, conns, served>>

----------------------------------------------------------------------------
(* health_check, lines 117-135 *)

\* line 121: conn = get_db_connection()
HealthConnect ==
    /\ pc = "h_connect"
    /\ \E driver \in DriverConnectOutcomes :
         LET c == get_db_connection(env, driver)
             o == [obs EXCEPT !.nGetConn = @ + 1,
                              !.nDriver = IF c.attempted THEN @ + 1 ELSE @]
         IN  IF c.raised
             THEN /\ Return(UnhealthyResponse(c.msg),
                            [o EXCEPT !.raisedAt = "connect", !.exc = c.msg])
                  /\ UNCHANGED <<conn, conns>>
             ELSE /\ conns' = Opened(c)
                  /\ conn' = Len(conns) + 1
                  /\ obs' = o
                  /\ pc' = "h_probe"
                  /\ UNCHANGED resp
    /\ UNCHANGED <<env, req, data, table_name, query, params, result, items, served>>

\* what the probe can answer
ProbeOutcomes == { Ok(JNull), Raise(<<"network error">>) }

\* a health check that ignores the probe's outcome
ProbeResponseAlwaysHealthy(r) == HealthyResponse

\* the response to the probe's outcome r
ProbeResponse(r) == IF r.raised THEN UnhealthyResponse(r.msg) ELSE HealthyResponse

\* lines 122-135: conn.run('SELECT 1') and the response
HealthProbe ==
    /\ pc = "h_probe"
    /\ \E r \in ProbeOutcomes :
         LET o == [obs EXCEPT !.nExec = @ + 1]
         IN  Return(ProbeResponse(r),
                    IF r.raised THEN [o EXCEPT !.raisedAt = "run", !.exc = r.msg] ELSE o)
    /\ UNCHANGED <<env, req, data, table_name, query, params, conn, result, items,
                   conns, served>>

----------------------------------------------------------------------------
(* The requests, environments and result sets the model draws from *)

SeqsUpTo(S, n) == UNION { [1..k -> S] : k \in 0..n }

\* a table name that carries SQL text of its own
InjectedTable == <<"SAL", "WHERE", "1=1", "AND", "USERNAME", "=", "?", "--">>

TableValues == { JNull, JStr(<<>>), JStr(<<"SAL">>), JStr(InjectedTable) }
FilterValues == { JNull, JStr(<<>>), JStr(<<"a">>) }

\* keys of a body: TABLE, three recognized filters, one unrecognized key
BodyKeys == { "TABLE", "USERNAME", "DOCNUM", "QUANTITY", "FOO" }

Entries ==
    { [key |-> k, value |-> v] : k \in BodyKeys \ {"TABLE"}, v \in FilterValues }
        \cup { [key |-> "TABLE", value |-> v] : v \in TableValues }

\* a parsed JSON object holds each key once, in the order of the body
ObjectBodies ==
    { JObj(m) : m \in { s \in SeqsUpTo(Entries, MaxBodyKeys) :
                          \A i, j \in Indices(s) : s[i].key = s[j].key => i = j } }

NonObjectBodies ==
    { JNull, JNum("5"), JStr(<<"x">>), JStr(<<"TABLE">>), JArr(<<>>),
      JArr(<<JStr(<<"TABLE">>)>>) }

Malformed == [wellformed |-> FALSE, value |-> JNull]
Parsed(v) == [wellformed |-> TRUE, value |-> v]

GetItemsRequest(is_json, body) ==
    [handler |-> "get_items", is_json |-> is_json, body |-> body]

HealthRequest == [handler |-> "health_check", is_json |-> FALSE, body |-> Malformed]

SalRequest == GetItemsRequest(TRUE, Parsed(JObj(<<[key |-> "TABLE", value |-> JStr(<<"SAL">>)]>>)))

AllRequests ==
    { GetItemsRequest(TRUE, Parsed(v)) : v \in ObjectBodies \cup NonObjectBodies }
        \cup { GetItemsRequest(TRUE, Malformed), GetItemsRequest(FALSE, Malformed),
               GetItemsRequest(FALSE, SalRequest.body), HealthRequest }

BasicRequests ==
    { HealthRequest, SalRequest, GetItemsRequest(FALSE, Malformed),
      GetItemsRequest(TRUE, Parsed(JObj(<<[key |-> "USERNAME", value |-> JStr(<<"a">>)]>>))),
      GetItemsRequest(TRUE, Parsed(JObj(<<[key |-> "DOCNUM", value |-> JStr(<<"a">>)],
                                          [key |-> "TABLE", value |-> JStr(<<"SAL">>)]>>))) }

SettingValues == { Unset, Setting(""), Setting("v") }
PortValues == { Unset, Setting("5433"), Setting("abc") }

Envs ==
    [PGUSER : SettingValues, PGPASSWORD : SettingValues, POSTGRES_HOST : SettingValues,
     PGDATABASE : SettingValues, NEON_PORT : PortValues]

GoodEnv ==
    [PGUSER |-> Setting("v"), PGPASSWORD |-> Setting("v"), POSTGRES_HOST |-> Setting("v"),
     PGDATABASE |-> Setting("v"), NEON_PORT |-> Unset]

BadEnv == [GoodEnv EXCEPT !.PGPASSWORD = Unset]

ExampleDescription == << <<"id", "int4">>, <<"name", "text">> >>

\* the example of the specification, an empty result set, and a plain list of
\* rows, which has no description attribute
Results ==
    { [has_description |-> TRUE, description |-> ExampleDescription,
       rows |-> << <<"1", "a">>, <<"2", "b">> >>],
      [has_description |-> TRUE, description |-> ExampleDescription, rows |-> <<>>],
      [has_description |-> FALSE, description |-> <<>>, rows |-> << <<"1", "a">> >>] }

ColumnDescs == { <<"id", "int4">>, <<"name", "text">> }
Cells == { "1", "2" }

\* every result set of at most MaxCols columns and MaxRows rows; column names
\* may repeat (SELECT * over a join)
AllResults ==
    { [has_description |-> TRUE, description |-> d, rows |-> r] :
        <<d, r>> \in { x \in SeqsUpTo(ColumnDescs, MaxCols)
                               \X SeqsUpTo(SeqsUpTo(Cells, MaxCols), MaxRows) :
                         \A k \in Indices(x[2]) : Len(x[2][k]) = Len(x[1]) } }

----------------------------------------------------------------------------
(* The server *)

\* the state after construction, under an environment of E
InitWith(E) ==
    /\ env \in E
    /\ pc = "idle"
    /\ req = NoRequest
    /\ data = JNull
    /\ table_name = JNull
    /\ query = <<>>
    /\ params = <<>>
    /\ conn = 0
    /\ result = NoResult
    /\ items = <<>>
    /\ resp = NoResp
    /\ obs = NoObs
    /\ conns = <<>>
    /\ served = 0

\* the framework dispatches request r to its handler
Receive(r) ==
    /\ pc = "idle"
    /\ served < MaxRequests
    /\ req' = r
    /\ pc' = IF r.handler = "get_items" THEN "validate" ELSE "h_connect"
    /\ UNCHANGED <<env, data, table_name, query, params, conn, result, items, resp,
                   obs, conns, served>>

\* the next request is one of `requests`
ReceiveFrom(requests) ==
    /\ pc = "idle"
    /\ \E r \in requests : Receive(r)

\* the response is sent and the invocation's locals are discarded
Finish ==
    /\ pc = "done"
    /\ pc' = "idle"
    /\ served' = served + 1
    /\ req' = NoRequest
    /\ data' = JNull
    /\ table_name' = JNull
    /\ query' = <<>>
    /\ params' = <<>>
    /\ conn' = 0
    /\ result' = NoResult
    /\ items' = <<>>
    /\ resp' = NoResp
    /\ obs' = NoObs
    /\ UNCHANGED <<env, conns>>

\* no handler closes its connection; the runtime may reclaim a connection
\* object once the invocation that held it has returned
Reclaim ==
    /\ \E i \in Indices(conns) :
         /\ conns[i].open
         /\ pc \in {"idle", "done"} \/ i # conn
         /\ conns' = [conns EXCEPT ![i].open = FALSE]
    /\ UNCHANGED <<env, pc, req, data, table_name, query, params, conn, result, items,
                   resp, obs, served>>

Handlers(results) ==
    \/ GetItemsValidate
    \/ GetItemsBuild
    \/ GetItemsConnect
    \/ GetItemsRun(results)
    \/ GetItemsRespond
    \/ HealthConnect
    \/ HealthProbe

\* the process: requests served one after another under any environment
Init == InitWith(Envs)
Next ==
    \/ ReceiveFrom(BasicRequests)
    \/ Handlers(Results)
    \/ Finish
    \/ Reclaim
Spec == Init /\ [][Next]_vars

\* one request of any shape, followed to its response
InitRequest == InitWith({GoodEnv, BadEnv})
NextRequest ==
    \/ ReceiveFrom(AllRequests)
    \/ Handlers(Results)
SpecRequest == InitRequest /\ [][NextRequest]_vars

\* one query over any result set
InitConv == InitWith({GoodEnv})
NextConv ==
    \/ ReceiveFrom({SalRequest})
    \/ GetItemsValidate
    \/ GetItemsBuild
    \/ GetItemsConnect
    \/ GetItemsRun(AllResults)
    \/ GetItemsRespond
SpecConv == InitConv /\ [][NextConv]_vars

----------------------------------------------------------------------------
(* Vocabulary of the properties *)

\* the recognized keys, in their documented order
RecognizedOrder ==
    << "USERNAME", "PASSWORD", "DOCTYPE", "DOCNUM", "DOCITEM", "CUSTOMER", "CUSTNAME",
       "MATERIAL", "QUANTITY" >>
RecognizedKeys == { RecognizedOrder[i] : i \in Indices(RecognizedOrder) }
Rank(k) == CHOOSE i \in Indices(RecognizedOrder) : RecognizedOrder[i] = k

\* a JSON object body holds key k
HasKey(v, k) == v.kind = "object" /\ \E i \in Indices(v.members) : v.members[i].key = k
\* ... with a value that is not null
HasValue(v, k) ==
    v.kind = "object"
        /\ \E i \in Indices(v.members) : v.members[i].key = k /\ v.members[i].value.kind # "null"
ValueOf(v, k) == v.members[CHOOSE i \in Indices(v.members) : v.members[i].key = k].value

GetItemsDone == pc = "done" /\ req.handler = "get_items"
HealthDone == pc = "done" /\ req.handler = "health_check"
StatementBuilt == req.handler = "get_items" /\ obs.nStmt > 0

\* an equality condition on column col starts at position i of statement q
CondAt(q, i, col) ==
    i + 3 <= Len(q) /\ q[i] = "AND" /\ q[i + 1] = col /\ q[i + 2] = "="
\* the conditions on col that start at position from or later
Conditions(q, col, from) == { i \in from..Len(q) : CondAt(q, i, col) }
\* the placeholders at position from or later
Placeholders(q, from) == { i \in from..Len(q) : q[i] = "?" }

\* where the text that follows the interpolated table name starts
AfterTable == 3 + Len(Format(table_name)) + 1

----------------------------------------------------------------------------
(* C1 *)

\* C1: a JSON body with no TABLE key, or with an empty (empty string or null)
\* TABLE value, is answered 400 {error: "Missing required parameter: TABLE"},
\* whatever else the body holds.
C1_MissingTableIs400 ==
    (GetItemsDone /\ req.is_json /\ req.body.wellformed
        /\ (~HasKey(req.body.value, "TABLE")
              \/ ValueOf(req.body.value, "TABLE") \in {JNull, JStr(<<>>)}))
    => resp = [status |-> 400, body |-> [error |-> <<"Missing required parameter: TABLE">>]]

\* the part of C1 the code keeps: bodies that are JSON objects
C1_ObjectBodies ==
    req.body.value.kind = "object" => C1_MissingTableIs400

----------------------------------------------------------------------------
(* C3 *)

\* C3: a POST whose body is not JSON is answered 400
\* {"error": "Request must be JSON"}, never 500.
C3_NonJsonIs400 ==
    (GetItemsDone /\ ~req.body.wellformed)
    => resp = [status |-> 400, body |-> [error |-> <<"Request must be JSON">>]]

\* the part of C3 the code keeps: requests whose content type is not JSON
C3_NonJsonContentType ==
    (GetItemsDone /\ ~req.is_json)
    => resp = [status |-> 400, body |-> [error |-> <<"Request must be JSON">>]]

----------------------------------------------------------------------------
(* C4 *)

\* C4: an invocation that acquired a connection has released it when it ends:
\* once the handler has returned, no connection is open.
C4_ConnectionsReleased ==
    pc \in {"done", "idle"} => \A i \in Indices(conns) : ~conns[i].open

----------------------------------------------------------------------------
(* C5 *)

\* C5: in a get_items request that passed validation, an exception raised by
\* the connection or by the execution ends the handler with 500
\* {"error": "Database error: <message>"}: exactly one response, never 200.
C5_DatabaseError ==
    (req.handler = "get_items" /\ obs.raisedAt \in {"connect", "run"})
    => /\ obs.validated
       /\ pc = "done"
       /\ obs.nResp = 1
       /\ resp.status = 500
       /\ resp.body = [error |-> <<"Database error: ">> \o obs.exc]
       /\ obs.exc # <<>>

C5_Witness ==
    GetItemsDone /\ obs.validated /\ obs.raisedAt = "run" /\ obs.nExec = 1
        /\ resp.status = 500

----------------------------------------------------------------------------
(* C6 *)

\* C6: GET /health answers 200 "healthy" exactly when get_db_connection
\* returned a connection and SELECT 1 ran without raising; otherwise it
\* answers 500 "unhealthy", database "disconnected", with the exception's
\* message in the error field.
C6_HealthIff ==
    HealthDone =>
        LET connected == conn # 0 /\ obs.nDriver = 1
            probed == obs.nExec = 1 /\ obs.raisedAt = "none"
        IN  /\ (resp.status = 200 /\ resp.body.status = "healthy") <=> (connected /\ probed)
            /\ ~(connected /\ probed) =>
                 /\ resp.status = 500
                 /\ resp.body.status = "unhealthy"
                 /\ resp.body.database = "disconnected"
                 /\ resp.body.error = obs.exc
                 /\ obs.exc # <<>>

C6_Witness ==
    HealthDone /\ conn # 0 /\ obs.nExec = 1 /\ obs.raisedAt = "run" /\ resp.status = 500

----------------------------------------------------------------------------
(* C7 *)

AnyRequiredMissing ==
    \E x \in {env.PGUSER, env.PGPASSWORD, env.POSTGRES_HOST, env.PGDATABASE} :
        ~x.set \/ x.value = ""

\* C7: with one of the four required settings unset or empty,
\* get_db_connection raises a descriptive error and the driver is never
\* called; no connection is ever opened with an empty credential; the caller
\* answers 500 with that error.
C7_FailFast ==
    /\ \A i \in Indices(conns) :
         "" \notin {conns[i].args.user, conns[i].args.password, conns[i].args.host,
                    conns[i].args.database}
    /\ AnyRequiredMissing =>
         /\ obs.nDriver = 0
         /\ conns = <<>>
         /\ obs.nGetConn > 0 =>
              /\ pc = "done"
              /\ obs.raisedAt = "connect"
              /\ Len(obs.exc) = 9
              /\ obs.exc[1] = "Missing required database parameters: "
              /\ obs.exc[3] = (IF ~env.PGUSER.set \/ env.PGUSER.value = ""
                               THEN "False" ELSE "True")
              /\ obs.exc[5] = (IF ~env.PGPASSWORD.set \/ env.PGPASSWORD.value = ""
                               THEN "False" ELSE "True")
              /\ obs.exc[7] = (IF ~env.POSTGRES_HOST.set \/ env.POSTGRES_HOST.value = ""
                               THEN "False" ELSE "True")
              /\ obs.exc[9] = (IF ~env.PGDATABASE.set \/ env.PGDATABASE.value = ""
                               THEN "False" ELSE "True")
              /\ resp.status = 500
              /\ resp.body.error = (IF req.handler = "get_items"
                                    THEN <<"Database error: ">> \o obs.exc ELSE obs.exc)

C7_Witness ==
    /\ pc = "done"
    /\ env.PGPASSWORD = Setting("")
    /\ env.PGUSER = Setting("v")
    /\ obs.nGetConn = 1
    /\ resp.status = 500

----------------------------------------------------------------------------
(* C9 *)

\* C9 as stated: every request to the query endpoint builds exactly one
\* statement, attempts at most one connection and one execution, and ends in
\* exactly one response (200, 400 or 500).
C9_ExactlyOneStatement ==
    GetItemsDone =>
        /\ obs.nStmt = 1
        /\ obs.nGetConn <= 1
        /\ obs.nExec <= 1
        /\ obs.nResp = 1
        /\ resp.status \in {200, 400, 500}

\* C9 as amended: a request to the query endpoint builds at most one
\* statement: exactly one when it passes validation, none when it is answered
\* before that.  It attempts at most one connection and at most one
\* execution; an exception ends the handler at once; every step short of the
\* response can be taken, and the handler ends in exactly one response (200,
\* 400 or 500).
C9_AtMostOnce ==
    req.handler = "get_items" =>
        /\ obs.nStmt <= 1 /\ obs.nGetConn <= 1 /\ obs.nDriver <= 1 /\ obs.nExec <= 1
        /\ obs.nResp <= 1
        /\ obs.nExec = 1 => obs.nGetConn = 1
        /\ obs.nGetConn = 1 => obs.nStmt = 1
        /\ obs.raisedAt # "none" => pc = "done"
        /\ pc # "done" => obs.nResp = 0 /\ ENABLED Handlers(Results)
        /\ pc = "done" =>
             /\ obs.nResp = 1
             /\ resp.status \in {200, 400, 500}
             /\ obs.nStmt = 1 <=> obs.validated
             /\ resp.status = 400 => obs.nStmt = 0 /\ obs.nGetConn = 0

C9_Witness ==
    GetItemsDone /\ obs.raisedAt = "connect" /\ obs.nGetConn = 1 /\ obs.nStmt = 1
        /\ obs.nExec = 0 /\ resp.status = 500

----------------------------------------------------------------------------
(* C8 *)

ResultColumns == [j \in Indices(result.description) |-> result.description[j][1]]
Converted == GetItemsDone /\ resp.status = 200
FirstIndex(cols, name) == CHOOSE j \in Indices(cols) :
    cols[j] = name /\ \A i \in 1..(j - 1) : cols[i] # name
LastIndex(cols, name) == CHOOSE j \in Indices(cols) :
    cols[j] = name /\ \A i \in (j + 1)..Len(cols) : cols[i] # name

\* C8 as stated: one record per row, in row order; record k has one entry per
\* result column, in column order, holding the cell at that column's position
\* in row k.
C8_OneEntryPerColumn ==
    Converted =>
        /\ Len(items) = Len(result.rows)
        /\ \A k \in Indices(items) :
             /\ Len(items[k]) = Len(ResultColumns)
             /\ \A j \in Indices(ResultColumns) :
                  items[k][j] = [key |-> ResultColumns[j], value |-> result.rows[k][j]]

\* C8 as amended: one record per row, in row order; record k has one entry
\* per distinct column name, in the order in which the names first appear in
\* the column list, and the entry of a name holds the cell at the last
\* position that name has in the column list; so a record has one entry per
\* result column exactly when no column name repeats.
C8_OneEntryPerName ==
    Converted =>
        /\ Len(items) = Len(result.rows)
        /\ \A k \in Indices(items) :
             LET rec == items[k] IN
             /\ { rec[a].key : a \in Indices(rec) }
                    = { ResultColumns[j] : j \in Indices(ResultColumns) }
             /\ \A a, b \in Indices(rec) :
                  a < b => FirstIndex(ResultColumns, rec[a].key)
                              < FirstIndex(ResultColumns, rec[b].key)
             /\ \A a \in Indices(rec) :
                  rec[a].value = result.rows[k][LastIndex(ResultColumns, rec[a].key)]
             /\ (Len(rec) = Len(ResultColumns))
                    <=> (\A i, j \in Indices(ResultColumns) :
                            ResultColumns[i] = ResultColumns[j] => i = j)

C8_Witness ==
    /\ Converted
    /\ Len(items) = 2
    /\ items[1] # items[2]
    /\ Len(ResultColumns) = 2
    /\ ResultColumns[1] = ResultColumns[2]
    /\ result.rows[1][1] # result.rows[1][2]

----------------------------------------------------------------------------
(* C2 *)

UnrecognizedKeys ==
    { data.members[i].key : i \in Indices(data.members) } \ RecognizedKeys

\* the conditions of the statement from position `from` on are those of C2
FilterConditions(from) ==
    /\ \A k \in RecognizedKeys :
         /\ Cardinality(Conditions(query, k, from)) = (IF HasValue(data, k) THEN 1 ELSE 0)
         /\ \A i \in Conditions(query, k, from) : query[i + 3] = "?"
         /\ HasValue(data, k) => \E j \in Indices(params) : params[j] = ValueOf(data, k)
    /\ \A k \in UnrecognizedKeys : Conditions(query, k, from) = {}
    /\ Len(params) = Cardinality({ k \in RecognizedKeys : HasValue(data, k) })

\* C2 as stated: the statement holds exactly one condition
\* `AND <column> = ?` for each recognized key present with a non-null value,
\* none for a recognized key that is absent or null, none for an unrecognized
\* key; the value is in the parameter list, not in the statement.
C2_ConditionsOfStatement == StatementBuilt => FilterConditions(1)

\* C2 as amended: the same of the text that follows the table name: the
\* statement is SELECT * FROM, the table name copied as sent, WHERE 1=1, and
\* then exactly one `AND <column> = ?` for each recognized key present with a
\* non-null value and nothing else; the value is in the parameter list.  (The
\* table name is copied into the statement unchecked and may hold conditions
\* and placeholders of its own.)
C2_ConditionsAfterTable ==
    StatementBuilt =>
        /\ SubSeq(query, 1, AfterTable - 1) = <<"SELECT", "*", "FROM">> \o table_name.text
        /\ SubSeq(query, AfterTable, AfterTable + 1) = <<"WHERE", "1=1">>
        /\ Len(query) = AfterTable + 1 + 4 * Len(params)
        /\ FilterConditions(AfterTable)

C2_Witness ==
    /\ StatementBuilt
    /\ table_name = JStr(InjectedTable)
    /\ HasValue(data, "QUANTITY")
    /\ HasKey(data, "FOO")
    /\ Len(params) = 1

----------------------------------------------------------------------------
(* C10 *)

\* the bodies that hold the entries of data in another order
Reordered ==
    { JObj([i \in Indices(data.members) |-> data.members[f[i]]]) :
        f \in Permutations(Indices(data.members)) }

\* the k-th condition from position `from` on is on a recognized key whose
\* value is the k-th parameter, and the keys follow the fixed order
OrderedConditions(from) ==
    /\ \A k \in Indices(params) :
         LET at == from + 4 * (k - 1) IN
         /\ CondAt(query, at, query[at + 1])
         /\ query[at + 3] = "?"
         /\ query[at + 1] \in RecognizedKeys
         /\ HasValue(data, query[at + 1])
         /\ params[k] = ValueOf(data, query[at + 1])
    /\ \A k, l \in Indices(params) :
         k < l => Rank(query[from + 4 * (k - 1) + 1]) < Rank(query[from + 4 * (l - 1) + 1])
    /\ \A d \in Reordered :
         BuildQuery(d, table_name) = [query |-> query, params |-> params]

\* C10 as stated: the statement has as many `?` as there are parameters; the
\* k-th parameter is the value of the k-th condition's key; the conditions
\* follow the order of param_mapping whatever the order of the body.
C10_PlaceholdersOfStatement ==
    StatementBuilt =>
        /\ Cardinality(Placeholders(query, 1)) = Len(params)
        /\ OrderedConditions(AfterTable + 2)

\* C10 as amended: the text that follows the table name has as many `?` as
\* there are parameters; the k-th parameter is the value of the k-th
\* condition's key; the conditions follow the order of param_mapping whatever
\* the order of the body.  (A `?` inside the table name is copied into the
\* statement and has no parameter.)
C10_PlaceholdersAfterTable ==
    StatementBuilt =>
        /\ Cardinality(Placeholders(query, AfterTable)) = Len(params)
        /\ OrderedConditions(AfterTable + 2)

C10_Witness ==
    /\ StatementBuilt
    /\ pc = "run"
    /\ Len(data.members) = 3
    /\ data.members[1].key = "QUANTITY"
    /\ data.members[2].key = "TABLE"
    /\ data.members[3].key = "USERNAME"
    /\ params = <<JStr(<<"a">>), JStr(<<>>)>>

====
